---------------------------- MODULE Spec2Model ----------------------------
(***************************************************************************)
(* A model of free_disk_space.py: the measurement-and-accounting pipeline  *)
(* that brackets best-effort cleanup commands with `df` measurements.      *)
(*                                                                         *)
(* Text that the program formats or parses (the fields of a `df` report,   *)
(* the argument and the output of `numfmt`, the values of environment      *)
(* variables) is a sequence of one-character strings, so that formatting   *)
(* and parsing are computed and not assumed.                               *)
(***************************************************************************)
EXTENDS Integers, Sequences, FiniteSets, TLC

(***************************************************************************)
(* Text helpers: Python's str(int), int(str), str.strip, str.lower.        *)
(***************************************************************************)
\* the element of a one-element set.  A call f(g(x)) of the script is written
\* Only({f(v) : v \in {g(x)}}): as in Python the argument is evaluated first,
\* and once, whatever use f makes of it
Only(S) == CHOOSE v \in S : TRUE

DigitChars == <<"0", "1", "2", "3", "4", "5", "6", "7", "8", "9">>

IsDigit(c) == \E d \in 1..10 : DigitChars[d] = c

DigitVal(c) == (CHOOSE d \in 1..10 : DigitChars[d] = c) - 1

RECURSIVE NatStr(_)
\* str(n) for n >= 0: the decimal digits of n, most significant first
NatStr(n) ==
    IF n < 10 THEN <<DigitChars[n + 1]>>
    ELSE Append(NatStr(n \div 10), DigitChars[(n % 10) + 1])

\* str(n), as the f-string of format_byte_count renders {kb}
PyStr(n) == IF n < 0 THEN <<"-">> \o NatStr(-n) ELSE NatStr(n)

RECURSIVE DigitsVal(_, _)
\* the value of a digit string, underscores skipped, accumulated left to right
DigitsVal(s, acc) ==
    IF s = <<>> THEN acc
    ELSE IF Head(s) = "_" THEN DigitsVal(Tail(s), acc)
    ELSE DigitsVal(Tail(s), 10 * acc + DigitVal(Head(s)))

\* what int() accepts after the sign: digits, single underscores between digits
WellFormedDigits(s) ==
    /\ s # <<>>
    /\ \A i \in 1..Len(s) : IsDigit(s[i]) \/ s[i] = "_"
    /\ s[1] # "_"
    /\ s[Len(s)] # "_"
    /\ \A i \in 1..(Len(s) - 1) : ~(s[i] = "_" /\ s[i + 1] = "_")

\* int(tok): [ok |-> TRUE, val |-> n], or ok = FALSE where Python raises ValueError
PyInt(tok) ==
    LET signed == tok # <<>> /\ tok[1] \in {"-", "+"}
        body   == IF signed THEN Tail(tok) ELSE tok
    IN  IF WellFormedDigits(body)
        THEN [ok |-> TRUE,
              val |-> IF signed /\ tok[1] = "-" THEN 0 - DigitsVal(body, 0)
                      ELSE DigitsVal(body, 0)]
        ELSE [ok |-> FALSE, val |-> 0]

RECURSIVE LStrip(_)
LStrip(s) == IF s # <<>> /\ Head(s) = " " THEN LStrip(Tail(s)) ELSE s

RECURSIVE RStrip(_)
RStrip(s) ==
    IF s # <<>> /\ s[Len(s)] = " " THEN RStrip(SubSeq(s, 1, Len(s) - 1)) ELSE s

\* str.strip() on one line of text
Strip(s) == RStrip(LStrip(s))

UpperChars == <<"A", "B", "C", "D", "E", "F", "G", "H", "I", "J", "K", "L", "M",
                "N", "O", "P", "Q", "R", "S", "T", "U", "V", "W", "X", "Y", "Z">>
LowerChars == <<"a", "b", "c", "d", "e", "f", "g", "h", "i", "j", "k", "l", "m",
                "n", "o", "p", "q", "r", "s", "t", "u", "v", "w", "x", "y", "z">>

\* str.lower() on one character
LowerChar(c) ==
    IF \E i \in 1..Len(UpperChars) : UpperChars[i] = c
    THEN LowerChars[CHOOSE i \in 1..Len(UpperChars) : UpperChars[i] = c]
    ELSE c

\* str.lower()
Lower(s) == [i \in 1..Len(s) |-> LowerChar(s[i])]

(***************************************************************************)
(* get_available_space: the parse of a `df -a [path]` report.  The report  *)
(* (result.stdout) is a sequence of lines, a line the sequence of its      *)
(* whitespace-separated fields (what line.split() returns).                *)
(***************************************************************************)
RECURSIVE LStripLines(_)
LStripLines(ls) ==
    IF ls # <<>> /\ Head(ls) = <<>> THEN LStripLines(Tail(ls)) ELSE ls

RECURSIVE RStripLines(_)
RStripLines(ls) ==
    IF ls # <<>> /\ ls[Len(ls)] = <<>>
    THEN RStripLines(SubSeq(ls, 1, Len(ls) - 1)) ELSE ls

\* result.stdout.strip().split('\n')[1:] : blank lines at both ends go, then
\* the first line (the header); the empty text splits to [''] and gives []
DataLines(stdout) ==
    LET stripped == RStripLines(LStripLines(stdout))
    IN  IF stripped = <<>> THEN <<>> ELSE Tail(stripped)

\* the body of the for loop: what one line adds to total_avail
LineAvail(parts) ==
    IF Len(parts) >= 4
    THEN (IF PyInt(parts[4]).ok THEN PyInt(parts[4]).val ELSE 0)
    ELSE 0

RECURSIVE SumAvailBreak(_, _)
\* SumAvail with `break` where the source has `pass`: the loop ends at the
\* first line whose fourth field is not an integer
SumAvailBreak(lines, acc) ==
    IF lines = <<>> THEN acc
    ELSE IF Len(Head(lines)) >= 4 /\ ~PyInt(Head(lines)[4]).ok THEN acc
    ELSE SumAvailBreak(Tail(lines), acc + LineAvail(Head(lines)))

RECURSIVE SumAvail(_, _)
\* the for loop over lines, total_avail carried in acc
SumAvail(lines, acc) ==
    IF lines = <<>> THEN acc
    ELSE SumAvail(Tail(lines), acc + LineAvail(Head(lines)))

get_available_space(stdout) == SumAvail(DataLines(stdout), 0)

(***************************************************************************)
(* format_byte_count: numfmt --to=iec-i --suffix=B --padding=7 "{kb}000".  *)
(***************************************************************************)
IecBase == 1024

UnitChars == <<"K", "M", "G", "T", "P", "E">>

RECURSIVE Pow(_, _)
Pow(b, e) == IF e = 0 THEN 1 ELSE b * Pow(b, e - 1)

CeilDiv(a, b) == (a + b - 1) \div b

RECURSIVE IecPower(_)
\* numfmt's scaling loop: divide by 1024 while the value is at least 1024
IecPower(v) == IF v >= IecBase THEN 1 + IecPower(v \div IecBase) ELSE 0

\* ceil(10 * r / unit) for 0 <= r < unit = 1024^p, p >= 1, computed in two
\* steps of 1024, so that every intermediate value stays within 32 bits
CeilTenths(r, unit) ==
    LET q    == unit \div IecBase
        x    == 10 * (r \div q) + ((10 * (r % q)) \div q)
        frac == (10 * (r % q)) % q
    IN  IF frac > 0 THEN (x \div IecBase) + 1 ELSE CeilDiv(x, IecBase)

\* numfmt --to=iec-i --suffix=B of the byte count v >= 0 (rounding from zero:
\* one decimal below 10 units, whole units from 10 on)
IecText(v) ==
    LET p      == IecPower(v)
        unit   == Pow(IecBase, p)
        tenths == 10 * (v \div unit) + CeilTenths(v % unit, unit)
        whole  == (v \div unit) + (IF v % unit > 0 THEN 1 ELSE 0)
        carry  == whole >= IecBase /\ p < Len(UnitChars)
    IN  IF p = 0 THEN NatStr(v) \o <<"B">>
        ELSE IF tenths < 100
             THEN NatStr(tenths \div 10) \o <<".">> \o NatStr(tenths % 10)
                  \o <<UnitChars[p], "i", "B">>
        ELSE IF carry THEN <<"1", ".", "0", UnitChars[p + 1], "i", "B">>
        ELSE NatStr(whole) \o <<UnitChars[p], "i", "B">>

PadWidth == 7

RECURSIVE PadLeft(_, _)
\* --padding=7: right-align in a field of at least 7
PadLeft(s, w) == IF Len(s) >= w THEN s ELSE PadLeft(<<" ">> \o s, w)

\* the stdout of numfmt for the one positional argument arg: an argument that
\* starts with "-" is read as an option and rejected, and so is a non-number;
\* both print to stderr only
Numfmt(arg) ==
    IF arg = <<>> \/ arg[1] = "-" THEN <<>>
    ELSE IF \A i \in 1..Len(arg) : IsDigit(arg[i])
         THEN Only({PadLeft(text, PadWidth) :
                      text \in {IecText(v) : v \in {DigitsVal(arg, 0)}}})
         ELSE <<>>

\* the argument f"{kb}000"
NumfmtArg(kb) == PyStr(kb) \o <<"0", "0", "0">>

format_byte_count(kb) ==
    Only({Strip(stdout) : stdout \in {Numfmt(a) : a \in {NumfmtArg(kb)}}})


(***************************************************************************)
(* Console text.  A console line is a string; the text numfmt returns is   *)
(* joined into one.                                                        *)
(***************************************************************************)
RECURSIVE Join(_)
Join(cs) == IF cs = <<>> THEN "" ELSE Head(cs) \o Join(Tail(cs))

RECURSIVE Rep(_, _)
\* char * num
Rep(char, num) == IF num = 0 THEN "" ELSE char \o Rep(char, num - 1)

SepWidth == 80

\* the two separation lines the script prints, computed once
SepLines == [char \in {"=", "*"} |-> Rep(char, SepWidth)]

\* print_separation_line(char, 80)
print_separation_line(char) == <<SepLines[char]>>

\* the lines print_saved_space(saved, title) prints; title "" is title=None
print_saved_space(saved_kb, title) ==
    LET text == Only({Join(t) : t \in {format_byte_count(saved_kb)}})
    IN  <<"">> \o print_separation_line("*")
          \o (IF title # ""
              THEN <<"=> " \o title \o ": Saved " \o text>>
              ELSE <<"=> Saved " \o text>>)
          \o print_separation_line("*") \o <<"">>

\* what a child process writes to the console it inherits
ChildOutput(cmd) == "<output of: " \o cmd \o ">"

\* the lines print_dh(caption) prints, the three df reports in their places
print_dh(caption) ==
    print_separation_line("=")
      \o (IF caption # "" THEN <<caption, "">> ELSE <<>>)
      \o <<"$ df -h /", "", ChildOutput("df -h /")>>
      \o <<"$ df -a /", "", ChildOutput("df -a /")>>
      \o <<"$ df -a", "", ChildOutput("df -a")>>
      \o print_separation_line("=")

WarningMarker == "::warning::"

\* the lines on the console that a child process wrote
ChildLines == {ChildOutput(c) : c \in {"df -h /", "df -a /", "df -a"}}

\* what has reached the terminal or the log when the process exits. print
\* writes to sys.stdout: line by line when stdout is a terminal; into a buffer
\* of 8192 bytes, which the script never fills and never flushes, when stdout
\* is a pipe or a file, so that its text goes out at exit, after everything the
\* child processes wrote to the same descriptor
Emitted(lines, isatty) ==
    IF isatty THEN lines
    ELSE SelectSeq(lines, LAMBDA l : l \in ChildLines)
           \o SelectSeq(lines, LAMBDA l : l \notin ChildLines)

(***************************************************************************)
(* Configuration: get_input and the seven stages of main, in the order of  *)
(* the source.                                                             *)
(***************************************************************************)
TrueChars == <<"t", "r", "u", "e">>
FalseChars == <<"f", "a", "l", "s", "e">>

\* the flag names main passes to get_input, character by character
FlagChars ==
    ("android" :> <<"a", "n", "d", "r", "o", "i", "d">>)
    @@ ("dotnet" :> <<"d", "o", "t", "n", "e", "t">>)
    @@ ("haskell" :> <<"h", "a", "s", "k", "e", "l", "l">>)
    @@ ("large-packages" :> <<"l", "a", "r", "g", "e", "-", "p", "a", "c", "k",
                              "a", "g", "e", "s">>)
    @@ ("docker-images" :> <<"d", "o", "c", "k", "e", "r", "-", "i", "m", "a",
                             "g", "e", "s">>)
    @@ ("tool-cache" :> <<"t", "o", "o", "l", "-", "c", "a", "c", "h", "e">>)
    @@ ("swap-storage" :> <<"s", "w", "a", "p", "-", "s", "t", "o", "r", "a",
                            "g", "e">>)

\* str.upper() on one character
UpperChar(c) ==
    IF \E i \in 1..26 : LowerChars[i] = c
    THEN UpperChars[CHOOSE i \in 1..26 : LowerChars[i] = c]
    ELSE c

Upper(s) == [i \in 1..Len(s) |-> UpperChar(s[i])]

\* name.replace('-', '_')
ReplaceHyphen(s) == [i \in 1..Len(s) |-> IF s[i] = "-" THEN "_" ELSE s[i]]

\* var_name = f"INPUT_{name.replace('-', '_').upper()}"
VarName(name) == "INPUT_" \o Join(Upper(ReplaceHyphen(FlagChars[name])))

\* os.environ.get(var, ...): the values env binds var to, none when unset;
\* env is a set of bindings [var, value] with one binding a variable at most
EnvGet(env, var) == {b.value : b \in {x \in env : x.var = var}}

\* get_input comparing the value as it is, without lower()
get_inputExact(raw, default) ==
    (IF raw = {} THEN default ELSE CHOOSE v \in raw : TRUE) = <<"t", "r", "u", "e">>

\* os.environ.get(var_name, default).lower() == "true"; raw is the set of
\* values the variable has: empty when it is unset
get_input(raw, default) ==
    Lower(IF raw = {} THEN default ELSE CHOOSE v \in raw : TRUE) = TrueChars

\* the values an INPUT_ variable is given in the model ({} : unset)
EnvValues ==
    {{}, {TrueChars}, {<<"T", "R", "U", "E">>}, {<<"T", "r", "u", "e">>},
     {FalseChars}, {<<>>}, {<<"1">>}, {<<"y", "e", "s">>}}

\* the values AGENT_TOOLSDIRECTORY has in the model ("" : unset or empty)
ToolsDirs == {"", "/opt/hostedtoolcache"}

AptCommands ==
    <<"sudo apt-get remove -y ^aspnetcore-.*",
      "sudo apt-get remove -y ^dotnet-.* --fix-missing",
      "sudo apt-get remove -y ^llvm-.* --fix-missing",
      "sudo apt-get remove -y php.* --fix-missing",
      "sudo apt-get remove -y ^mongodb-.* --fix-missing",
      "sudo apt-get remove -y ^mysql-.* --fix-missing",
      "sudo apt-get remove -y azure-cli google-chrome-stable firefox powershell mono-devel libgl1-mesa-dri --fix-missing",
      "sudo apt-get remove -y google-cloud-sdk --fix-missing",
      "sudo apt-get remove -y google-cloud-cli --fix-missing",
      "sudo apt-get autoremove -y",
      "sudo apt-get clean">>

\* error_msg of the package loop
AptErrorMsg(cmd) ==
    "The command [" \o cmd \o "] failed to complete successfully. Proceeding..."

\* a call run_command(cmd) without error_msg (error_msg=None, here "")
Plain(cmd) == [cmd |-> cmd, error_msg |-> ""]

\* the stage table with the blocks of dotnet and haskell in swapped places
StagesSwapped ==
    <<[name |-> "android", default |-> TrueChars, title |-> "Android library"],
      [name |-> "haskell", default |-> TrueChars, title |-> "Haskell runtime"],
      [name |-> "dotnet", default |-> TrueChars, title |-> ".NET runtime"],
      [name |-> "large-packages", default |-> TrueChars,
       title |-> "Large misc. packages"],
      [name |-> "docker-images", default |-> TrueChars, title |-> "Docker images"],
      [name |-> "tool-cache", default |-> FalseChars, title |-> "Tool cache"],
      [name |-> "swap-storage", default |-> TrueChars, title |-> "Swap storage"]>>

Stages ==
    <<[name |-> "android", default |-> TrueChars, title |-> "Android library"],
      [name |-> "dotnet", default |-> TrueChars, title |-> ".NET runtime"],
      [name |-> "haskell", default |-> TrueChars, title |-> "Haskell runtime"],
      [name |-> "large-packages", default |-> TrueChars,
       title |-> "Large misc. packages"],
      [name |-> "docker-images", default |-> TrueChars, title |-> "Docker images"],
      [name |-> "tool-cache", default |-> FalseChars, title |-> "Tool cache"],
      [name |-> "swap-storage", default |-> TrueChars, title |-> "Swap storage"]>>

NStages == Len(Stages)

\* the tool-cache block without its `if agent_tools_dir:`
ToolCacheCommandsUnguarded(dir) == <<Plain("sudo rm -rf " \o dir)>>

\* lines 223-227: the removal of the tool cache, when AGENT_TOOLSDIRECTORY is
\* set and not empty
ToolCacheCommands(dir) ==
    IF dir # "" THEN <<Plain("sudo rm -rf " \o dir)>> ELSE <<>>

\* the run_command calls of stage s, in order; dir is AGENT_TOOLSDIRECTORY
StageCommands(s, dir) ==
    CASE Stages[s].name = "android" ->
           <<Plain("sudo rm -rf /usr/local/lib/android")>>
      [] Stages[s].name = "dotnet" ->
           <<Plain("sudo rm -rf /usr/share/dotnet")>>
      [] Stages[s].name = "haskell" ->
           <<Plain("sudo rm -rf /opt/ghc"), Plain("sudo rm -rf /usr/local/.ghcup")>>
      [] Stages[s].name = "large-packages" ->
           [i \in 1..Len(AptCommands) |->
              [cmd |-> AptCommands[i], error_msg |-> AptErrorMsg(AptCommands[i])]]
      [] Stages[s].name = "docker-images" ->
           <<Plain("sudo docker image prune --all --force")>>
      [] Stages[s].name = "tool-cache" ->
           ToolCacheCommands(dir)
      [] Stages[s].name = "swap-storage" ->
           <<Plain("sudo swapoff -a"), Plain("sudo rm -f /mnt/swapfile"),
             Plain("free -h")>>


(***************************************************************************)
(* The disk, as `df` shows it.  The commands the stages run and whatever   *)
(* else runs on the host change the available space between two            *)
(* measurements; a measurement reads the report of the disk as it is then. *)
(***************************************************************************)
\* the states of the disk in the model: available KB on / and on /mnt
DiskStates ==
    {[root |-> 5000000, mnt |-> 1000000],
     [root |-> 5200000, mnt |-> 1100000]}

\* how many times in one run the host departs from the quiet case: a command
\* exits non-zero, or the disk has changed since the measurement before
MaxEvents == 1

DfHeader ==
    <<<<"Filesystem">>, <<"1K-blocks">>, <<"Used">>, <<"Available">>,
      <<"Use%">>, <<"Mounted">>, <<"on">>>>

\* a data row of the report; avail is the text of the fourth field
DfRow(fs, avail, mount) ==
    <<<<fs>>, <<"9", "9">>, <<"1">>, avail, <<"1", "%">>, <<mount>>>>

\* result.stdout of `df -a` (path = "") or `df -a /`, the disk being d: the
\* header, one row per mount (pseudo and unreadable ones included), and the
\* line the final newline ends
DfOutput(d, path) ==
    IF path = "/"
    THEN <<DfHeader, DfRow("/dev/root", NatStr(d.root), "/"), <<>>>>
    ELSE <<DfHeader,
           DfRow("proc", <<"0">>, "/proc"),
           DfRow("/dev/root", NatStr(d.root), "/"),
           DfRow("gvfsd-fuse", <<"-">>, "/run/user/1001/gvfs"),
           DfRow("/dev/sdb1", NatStr(d.mnt), "/mnt"),
           <<>>>>

\* get_available_space(path) on each disk of the model, computed once
Measured ==
    [d \in DiskStates, path \in {"", "/"} |->
        get_available_space(DfOutput(d, path))]

(***************************************************************************)
(* The state of one run of the script.  The script is sequential and each  *)
(* environment variable is read once, so the value of a variable is chosen *)
(* where the script reads it.  A step of the model is one block of the     *)
(* script: the module-level initialisation, the start of main, one stage   *)
(* block (or its skipping), the final statistics.                          *)
(***************************************************************************)
VARIABLES
    pc,                     \* where the script is
    stage,                  \* the stage block main is at (1..NStages)
    SENTRY_DSN,             \* the environment variable, "" when unset
    sentry_on,              \* sentry_sdk.init has run
    captured,               \* capture_exception calls made
    enabled,                \* what get_input returned, stage by stage
    agent_tools_dir,        \* AGENT_TOOLSDIRECTORY as the tool-cache block read it
    disk, events,           \* the host: its disk, and the events so far
    available_initial, available_root_initial,
    before, after, saved,
    available_end, available_root_end, root_saved, total_saved,
    console,                \* the lines written to stdout, in order
    trace,                  \* the measurements and commands run, in order
    reported,               \* the calls of print_saved_space: title and saved
    exit_status,            \* the exit status of the process, -1 while it runs
    transcript,             \* what the terminal (TRUE) or the pipe or file (FALSE)
                            \* that is stdout has received at exit
    arg, out                \* a utility function called on its own: input, result

vars ==
    <<pc, stage, SENTRY_DSN, sentry_on, captured, enabled, agent_tools_dir,
      disk, events, available_initial, available_root_initial, before,
      after, saved, available_end, available_root_end, root_saved, total_saved,
      console, trace, reported, exit_status, transcript, arg, out>>

hostVars == <<disk, events>>
initVars == <<available_initial, available_root_initial>>
stageVars == <<before, after, saved>>
finalVars == <<available_end, available_root_end, root_saved, total_saved>>
sentryVars == <<SENTRY_DSN, sentry_on>>
utilVars == <<arg, out>>
exitVars == <<exit_status, transcript>>

\* the values SENTRY_DSN has in the model: unset, a DSN, not a DSN
ValidDsn == "https://key@o1.ingest.sentry.io/1"
BadDsn == "not-a-dsn"
DsnValues == {"", ValidDsn, BadDsn}

\* the script's variables before its first statement
Idle ==
    /\ stage = 1
    /\ sentry_on = FALSE /\ captured = 0
    /\ enabled = <<>> /\ agent_tools_dir = ""
    /\ events = 0
    /\ available_initial = 0 /\ available_root_initial = 0
    /\ before = 0 /\ after = 0 /\ saved = 0
    /\ available_end = 0 /\ available_root_end = 0
    /\ root_saved = 0 /\ total_saved = 0
    /\ console = <<>> /\ trace = <<>> /\ reported = <<>>
    /\ exit_status = -1 /\ transcript = <<>>

Init ==
    /\ pc = "boot"
    /\ SENTRY_DSN \in DsnValues
    /\ disk \in DiskStates
    /\ Idle
    /\ arg = <<>> /\ out = <<>>

\* 1 when the disk changed between two measurements
DriftCount(d0, d1) == IF d0 = d1 THEN 0 ELSE 1

\* the trace entry of one get_available_space(path) call that returned kb
DfEvent(path, kb) ==
    [ev |-> "df", cmd |-> IF path = "" THEN "df -a" ELSE "df -a " \o path,
     kb |-> kb]

\* lines 274-281 with the exception swallowed: no `raise` in the handler
ProcessExitSwallows(raised, dsn) ==
    [status |-> 0, captures |-> IF raised /\ dsn # "" THEN 1 ELSE 0]

\* lines 274-281: main returned, or raised: the exception is captured when
\* SENTRY_DSN is set and raised again, which ends the process with status 1
ProcessExit(raised, dsn) ==
    [status |-> IF raised THEN 1 ELSE 0,
     captures |-> IF raised /\ dsn # "" THEN 1 ELSE 0]

\* the trace entry of a child process that could not be started
FaultEvent(cmd) == [ev |-> "fault", cmd |-> cmd]

\* module level, lines 9-20: sentry_sdk.init when SENTRY_DSN is set; init
\* raises on a DSN it cannot parse, and nothing catches it
SentryInit ==
    /\ pc = "boot"
    /\ IF SENTRY_DSN = ""
       THEN /\ pc' = "main"
            /\ UNCHANGED <<sentry_on, exitVars>>
       ELSE IF SENTRY_DSN = ValidDsn
       THEN /\ pc' = "main"
            /\ sentry_on' = TRUE
            /\ UNCHANGED exitVars
       ELSE /\ pc' = "crashed"
            /\ exit_status' = 1
            /\ transcript' = [isatty \in BOOLEAN |-> <<>>]
            /\ UNCHANGED sentry_on
    /\ UNCHANGED <<stage, SENTRY_DSN, captured, enabled, agent_tools_dir,
                   hostVars, initVars, stageVars, finalVars, console,
                   trace, reported, utilVars>>

\* main, lines 132-139: the two initial measurements and the BEFORE report
MainInit ==
    /\ pc = "main"
    /\ \E d2 \in DiskStates :
          /\ d2 = disk \/ events < MaxEvents
          /\ available_initial' = Measured[disk, ""]
          /\ available_root_initial' = Measured[d2, "/"]
          /\ disk' = d2
          /\ events' = events + DriftCount(disk, d2)
    /\ trace' = trace \o <<DfEvent("", available_initial'),
                            DfEvent("/", available_root_initial')>>
    /\ console' = console \o print_dh("BEFORE CLEAN-UP:") \o <<"">>
    /\ pc' = "stages"
    /\ stage' = 1
    /\ UNCHANGED <<sentryVars, captured, enabled, agent_tools_dir,
                   stageVars, finalVars, reported, exitVars, utilVars>>

\* the executable a command line starts
Tool(cmd) == IF cmd = "free -h" THEN "free" ELSE "sudo"

\* the executables the script has started so far: a tool that is missing on
\* the host cannot be started (subprocess.run raises FileNotFoundError, which
\* nothing in main catches) and is found missing at its first use
Started ==
    {"df" : i \in {j \in 1..Len(trace) : trace[j].ev = "df"}}
    \cup {Tool(trace[i].cmd) : i \in {j \in 1..Len(trace) : trace[j].ev = "run"}}
    \cup {"numfmt" : i \in {j \in 1..Len(enabled) : enabled[j].on}}

\* an exception leaves main and reaches lines 277-281
MainRaises ==
    /\ pc' = "crashed"
    /\ exit_status' = ProcessExit(TRUE, SENTRY_DSN).status
    /\ captured' = captured + ProcessExit(TRUE, SENTRY_DSN).captures
    /\ transcript' = [isatty \in BOOLEAN |-> Emitted(console', isatty)]
    /\ UNCHANGED <<hostVars, sentryVars, utilVars>>

\* main, line 133, on a host without df: the first measurement cannot start
MainInitFault ==
    /\ pc = "main"
    /\ trace' = Append(trace, FaultEvent("df -a"))
    /\ UNCHANGED <<stage, enabled, agent_tools_dir, initVars, stageVars,
                   finalVars, reported, console>>
    /\ MainRaises

\* main returning after the last block, without the final statistics
AfterStageReturns(s) == IF s < NStages THEN "stages" ELSE "done"

\* where main goes after the block of stage s
AfterStage(s) == IF s < NStages THEN "stages" ELSE "final"
NextStage(s) == IF s < NStages THEN s + 1 ELSE s

\* StageSkip with the before measurement taken ahead of the `if`
StageSkipMeasures ==
    /\ pc = "stages"
    /\ \E raw \in EnvValues : ~get_input(raw, Stages[stage].default)
    /\ enabled' = Append(enabled, [name |-> Stages[stage].name, on |-> FALSE])
    /\ before' = Measured[disk, ""]
    /\ trace' = Append(trace, DfEvent("", before'))
    /\ pc' = AfterStage(stage)
    /\ stage' = NextStage(stage)
    /\ UNCHANGED <<sentryVars, captured, agent_tools_dir, hostVars,
                   initVars, after, saved, finalVars, console, reported,
                   exitVars, utilVars>>

\* `if get_input(...)` found false: the block is not entered
StageSkip ==
    /\ pc = "stages"
    /\ \E raw \in EnvValues : ~get_input(raw, Stages[stage].default)
    /\ enabled' = Append(enabled, [name |-> Stages[stage].name, on |-> FALSE])
    /\ pc' = AfterStage(stage)
    /\ stage' = NextStage(stage)
    /\ UNCHANGED <<sentryVars, captured, agent_tools_dir, hostVars,
                   initVars, stageVars, finalVars, console, trace, reported,
                   exitVars, utilVars>>

\* the exit statuses a command ends with in the model
ExitCodes == {0, 1}

RECURSIVE FailSets(_, _)
\* the sets of at most k positions among 1..n
FailSets(n, k) ==
    IF k = 0 THEN {{}}
    ELSE LET less == FailSets(n, k - 1)
         IN  less \cup {S \cup {i} : S \in less, i \in 1..n}

\* the exit statuses of n commands in a row, at most k of them non-zero
Outcomes(n, k) ==
    {[i \in 1..n |-> IF i \in S THEN 1 ELSE 0] : S \in FailSets(n, k)}

RECURSIVE Failures(_)
Failures(rcs) ==
    IF rcs = <<>> THEN 0
    ELSE (IF Head(rcs) # 0 THEN 1 ELSE 0) + Failures(Tail(rcs))

\* run_command without its try/except: a non-zero exit leaves the function
\* as the CalledProcessError of subprocess.run(check=True)
run_commandRaises(c, rc, dsn) ==
    IF rc = 0
    THEN [ret |-> TRUE, raised |-> FALSE, lines |-> <<>>, captures |-> 0]
    ELSE [ret |-> FALSE, raised |-> TRUE, lines |-> <<>>, captures |-> 0]

\* run_command printing its warning whether or not error_msg was given
run_commandAlwaysWarns(c, rc, dsn) ==
    IF rc = 0
    THEN [ret |-> TRUE, raised |-> FALSE, lines |-> <<>>, captures |-> 0]
    ELSE [ret |-> FALSE, raised |-> FALSE,
          lines |-> <<WarningMarker \o c.error_msg>>,
          captures |-> IF dsn # "" THEN 1 ELSE 0]

\* run_command(cmd, error_msg), the command exiting with rc: what it returns,
\* whether it raises, the lines it prints, the exceptions it captures
run_command(c, rc, dsn) ==
    IF rc = 0
    THEN [ret |-> TRUE, raised |-> FALSE, lines |-> <<>>, captures |-> 0]
    ELSE [ret |-> FALSE, raised |-> FALSE,
          lines |-> IF c.error_msg # "" THEN <<WarningMarker \o c.error_msg>>
                    ELSE <<>>,
          captures |-> IF dsn # "" THEN 1 ELSE 0]

RECURSIVE RunAllRetry(_, _, _, _)
\* the run_command calls of a block, a command that exited non-zero being
\* run a second time
RunAllRetry(cmds, rcs, dsn, acc) ==
    IF cmds = <<>> \/ acc.raised THEN acc
    ELSE LET c  == Head(cmds)
             r  == run_command(c, Head(rcs), dsn)
             ev == [ev |-> "run", cmd |-> c.cmd, error_msg |-> c.error_msg,
                    rc |-> Head(rcs), ret |-> r.ret]
         IN  RunAllRetry(Tail(cmds), Tail(rcs), dsn,
                         [trace |-> acc.trace
                                      \o (IF r.ret THEN <<ev>> ELSE <<ev, ev>>),
                          lines |-> acc.lines \o r.lines,
                          captures |-> acc.captures + r.captures,
                          raised |-> r.raised])

RECURSIVE RunAll(_, _, _, _)
\* the run_command calls of a block one after the other, the i-th command
\* exiting with rcs[i]; an exception leaving run_command ends the block
RunAll(cmds, rcs, dsn, acc) ==
    IF cmds = <<>> \/ acc.raised THEN acc
    ELSE LET c == Head(cmds)
             r == run_command(c, Head(rcs), dsn)
         IN  RunAll(Tail(cmds), Tail(rcs), dsn,
                    [trace |-> Append(acc.trace,
                                      [ev |-> "run", cmd |-> c.cmd,
                                       error_msg |-> c.error_msg,
                                       rc |-> Head(rcs), ret |-> r.ret]),
                     lines |-> acc.lines \o r.lines,
                     captures |-> acc.captures + r.captures,
                     raised |-> r.raised])

NothingRun == [trace |-> <<>>, lines |-> <<>>, captures |-> 0, raised |-> FALSE]

\* saved as the size of the change, its sign dropped
StageSavedAbs(b, a) == IF a >= b THEN a - b ELSE b - a

\* saved = after - before
StageSaved(b, a) == a - b

\* a block that takes both its measurements before it runs its commands
BlockTraceMeasuresFirst(b, runs, a) ==
    <<DfEvent("", b), DfEvent("", a)>> \o runs

\* what a block does, in order: available_before, its commands,
\* available_after
BlockTrace(b, runs, a) == <<DfEvent("", b)>> \o runs \o <<DfEvent("", a)>>

\* `if get_input(...)` found true: the before measurement, the commands of
\* the block, the after measurement, saved, and its banner
StageBlock ==
    /\ pc = "stages"
    /\ \E raw \in EnvValues : get_input(raw, Stages[stage].default)
    /\ enabled' = Append(enabled, [name |-> Stages[stage].name, on |-> TRUE])
    /\ \E dir \in ToolsDirs, d0 \in DiskStates, d1 \in DiskStates :
          /\ Stages[stage].name = "tool-cache" \/ dir = agent_tools_dir
          /\ events + DriftCount(disk, d0) + DriftCount(d0, d1) <= MaxEvents
          /\ LET cmds == StageCommands(stage, dir)
                 left == MaxEvents - events - DriftCount(disk, d0)
                           - DriftCount(d0, d1)
             IN  \E rcs \in Outcomes(Len(cmds), left) :
                   LET b   == Measured[d0, ""]
                       a   == Measured[d1, ""]
                       res == RunAll(cmds, rcs, SENTRY_DSN, NothingRun)
                       sv  == StageSaved(b, a)
                   IN  /\ agent_tools_dir' = dir
                       /\ before' = b
                       /\ captured' = captured + res.captures
                            + ProcessExit(res.raised, SENTRY_DSN).captures
                       /\ events' = events + DriftCount(disk, d0)
                                      + DriftCount(d0, d1) + Failures(rcs)
                       /\ IF res.raised
                          THEN /\ disk' = d0
                               /\ trace' = trace \o <<DfEvent("", b)>> \o res.trace
                               /\ console' = console \o res.lines
                               /\ pc' = "crashed"
                               /\ exit_status' = ProcessExit(TRUE, SENTRY_DSN).status
                               /\ transcript' = [isatty \in BOOLEAN |-> Emitted(console', isatty)]
                               /\ UNCHANGED <<after, saved, reported, stage>>
                          ELSE /\ disk' = d1
                               /\ after' = a
                               /\ saved' = sv
                               /\ trace' = trace \o BlockTrace(b, res.trace, a)
                               /\ reported' = Append(reported,
                                                [title |-> Stages[stage].title,
                                                 saved |-> sv])
                               /\ console' = console \o res.lines
                                    \o print_saved_space(sv, Stages[stage].title)
                               /\ pc' = AfterStage(stage)
                               /\ stage' = NextStage(stage)
                               /\ UNCHANGED exitVars
    /\ UNCHANGED <<sentryVars, initVars, finalVars, utilVars>>

\* the block of an enabled stage on a host where an executable not used so
\* far is missing: that of the k-th command of the block, or numfmt (k = n + 1:
\* the format_byte_count call of the block); the commands before it have run,
\* each with its exit status
StageBlockFault ==
    /\ pc = "stages"
    /\ \E raw \in EnvValues : get_input(raw, Stages[stage].default)
    /\ enabled' = Append(enabled, [name |-> Stages[stage].name, on |-> TRUE])
    /\ \E missing \in {"sudo", "free", "numfmt"} \ Started,
          dir \in ToolsDirs, d0 \in DiskStates, d1 \in DiskStates :
          /\ Stages[stage].name = "tool-cache" \/ dir = agent_tools_dir
          /\ events + DriftCount(disk, d0) + DriftCount(d0, d1) <= MaxEvents
          /\ LET cmds == StageCommands(stage, dir)
                 n    == Len(cmds)
                 left == MaxEvents - events - DriftCount(disk, d0)
                           - DriftCount(d0, d1)
             IN  \E k \in 1..(n + 1) :
                   LET tool == IF k <= n THEN Tool(cmds[k].cmd) ELSE "numfmt"
                       ran  == SubSeq(cmds, 1, k - 1)
                   IN  /\ tool = missing
                       /\ \A i \in 1..Len(ran) : Tool(ran[i].cmd) # tool
                       /\ k <= n => d1 = d0
                       /\ \E rcs \in Outcomes(k - 1, left) :
                             LET b   == Measured[d0, ""]
                                 a   == Measured[d1, ""]
                                 res == RunAll(ran, rcs, SENTRY_DSN, NothingRun)
                             IN  /\ ~res.raised
                                 /\ agent_tools_dir' = dir
                                 /\ before' = b
                                 /\ after' = IF k = n + 1 THEN a ELSE after
                                 /\ saved' = IF k = n + 1 THEN StageSaved(b, a)
                                             ELSE saved
                                 /\ trace' = trace \o <<DfEvent("", b)>> \o res.trace
                                       \o (IF k = n + 1 THEN <<DfEvent("", a)>>
                                           ELSE <<>>)
                                       \o <<FaultEvent(IF k <= n THEN cmds[k].cmd
                                                       ELSE "numfmt")>>
                                 /\ console' = console \o res.lines
                                 /\ disk' = d1
                                 /\ events' = events + DriftCount(disk, d0)
                                       + DriftCount(d0, d1) + Failures(rcs)
                                 /\ captured' = captured + res.captures
                                       + ProcessExit(TRUE, SENTRY_DSN).captures
    /\ pc' = "crashed"
    /\ exit_status' = ProcessExit(TRUE, SENTRY_DSN).status
    /\ transcript' = [isatty \in BOOLEAN |-> Emitted(console', isatty)]
    /\ UNCHANGED <<stage, sentryVars, initVars, finalVars, reported, utilVars>>

RECURSIVE SumSaved(_)
SumSaved(rs) == IF rs = <<>> THEN 0 ELSE Head(rs).saved + SumSaved(Tail(rs))

\* the totals taken as the sum of what the stages reported
FinalStatsFromStages(a_initial, a_root_initial, a_end, a_root_end) ==
    [root_saved |-> SumSaved(reported), total_saved |-> SumSaved(reported)]

\* root_saved and total_saved from the four global measurements
FinalStats(a_initial, a_root_initial, a_end, a_root_end) ==
    [root_saved |-> a_root_end - a_root_initial, total_saved |-> a_end - a_initial]

\* main, lines 246-272, and the normal end of the process
Finalize ==
    /\ pc = "final"
    /\ \E d1 \in DiskStates, d2 \in DiskStates :
          /\ events + DriftCount(disk, d1) + DriftCount(d1, d2) <= MaxEvents
          /\ LET e    == Measured[d1, ""]
                 r    == Measured[d2, "/"]
                 st   == FinalStats(available_initial, available_root_initial, e, r)
                 text == console \o <<"">> \o print_dh("AFTER CLEAN-UP:")
                           \o <<"", "", "/dev/root:">>
                           \o print_saved_space(st.root_saved, "")
                           \o <<"overall:">>
                           \o print_saved_space(st.total_saved, "")
             IN  /\ available_end' = e
                 /\ available_root_end' = r
                 /\ disk' = d2
                 /\ events' = events + DriftCount(disk, d1) + DriftCount(d1, d2)
                 /\ root_saved' = st.root_saved
                 /\ total_saved' = st.total_saved
                 /\ reported' = reported
                       \o <<[title |-> "", saved |-> st.root_saved],
                            [title |-> "", saved |-> st.total_saved]>>
                 /\ console' = text
                 /\ trace' = trace \o <<DfEvent("", e), DfEvent("/", r)>>
                 /\ transcript' = [isatty \in BOOLEAN |-> Emitted(text, isatty)]
    /\ pc' = "done"
    /\ exit_status' = ProcessExit(FALSE, SENTRY_DSN).status
    /\ UNCHANGED <<stage, sentryVars, captured, enabled, agent_tools_dir,
                   initVars, stageVars, utilVars>>

\* main, lines 246-257, on a host without numfmt when no stage was enabled:
\* the two measurements, then format_byte_count cannot start numfmt
FinalizeFault ==
    /\ pc = "final"
    /\ "numfmt" \notin Started
    /\ \E d1 \in DiskStates, d2 \in DiskStates :
          /\ events + DriftCount(disk, d1) + DriftCount(d1, d2) <= MaxEvents
          /\ LET e  == Measured[d1, ""]
                 r  == Measured[d2, "/"]
                 st == FinalStats(available_initial, available_root_initial, e, r)
             IN  /\ available_end' = e
                 /\ available_root_end' = r
                 /\ disk' = d2
                 /\ events' = events + DriftCount(disk, d1) + DriftCount(d1, d2)
                 /\ root_saved' = st.root_saved
                 /\ total_saved' = st.total_saved
                 /\ trace' = trace \o <<DfEvent("", e), DfEvent("/", r),
                                         FaultEvent("numfmt")>>
    /\ pc' = "crashed"
    /\ exit_status' = ProcessExit(TRUE, SENTRY_DSN).status
    /\ captured' = captured + ProcessExit(TRUE, SENTRY_DSN).captures
    /\ transcript' = [isatty \in BOOLEAN |-> Emitted(console, isatty)]
    /\ UNCHANGED <<stage, sentryVars, enabled, agent_tools_dir, initVars,
                   stageVars, reported, console, utilVars>>

Next ==
    \/ SentryInit
    \/ MainInit
    \/ MainInitFault
    \/ StageSkip
    \/ StageBlock
    \/ StageBlockFault
    \/ Finalize
    \/ FinalizeFault

Spec == Init /\ [][Next]_vars

\* the script is one sequential process: while it has a next statement and
\* its child processes terminate, it takes it
FairSpec == Spec /\ WF_vars(Next)

(***************************************************************************)
(* The two utility functions on their own: the input is drawn from a       *)
(* bounded set and one step applies the function to it.                    *)
(***************************************************************************)
\* the quiet host the utility functions are called on
UtilIdle == Idle /\ SENTRY_DSN = "" /\ disk = [root |-> 5000000, mnt |-> 1000000]

\* format_byte_count is called on every kb of -MaxKb..MaxKb and on KbSamples
MaxKb == 60
KbSamples == {-1048576, -200000, -500, 500, 200000, 1048576, 2000000}
KbInputs == (-MaxKb..MaxKb) \cup KbSamples

InitFormat == pc = "call_format" /\ arg \in KbInputs /\ out = <<>> /\ UtilIdle

FormatCall ==
    /\ pc = "call_format"
    /\ out' = format_byte_count(arg)
    /\ pc' = "formatted"
    /\ UNCHANGED <<stage, sentryVars, captured, enabled, agent_tools_dir,
                   hostVars, initVars, stageVars, finalVars, console, trace,
                   reported, exitVars, arg>>

SpecFormat == InitFormat /\ [][FormatCall]_vars

\* get_available_space is called on every report of at most MaxRows data
\* rows, each row one of RowKinds, and on the empty output of a failed `df`
MaxRows == 4

AvailTexts ==
    {<<"1", "0", "0">>, <<"2", "0", "0">>, <<"3", "0", "0">>, <<"x">>, <<"-">>,
     <<"-", "5">>}

\* a full row per text of the fourth field, and a row of three fields
RowKinds ==
    {DfRow("/dev/sda1", t, "/data") : t \in AvailTexts}
    \cup {<<<<"none">>, <<"9", "9">>, <<"1">>>>}

RECURSIVE RowSeqs(_)
\* the sequences of at most n rows
RowSeqs(n) ==
    IF n = 0 THEN {<<>>}
    ELSE LET less == RowSeqs(n - 1)
         IN  less \cup {Append(rs, r) : rs \in {x \in less : Len(x) = n - 1},
                                        r \in RowKinds}

\* header, rows, and the line the final newline ends; or nothing at all
Reports == {<<>>} \cup {<<DfHeader>> \o rs \o <<<<>>>> : rs \in RowSeqs(MaxRows)}

InitProbe == pc = "call_probe" /\ arg \in Reports /\ out = <<>> /\ UtilIdle

ProbeCall ==
    /\ pc = "call_probe"
    /\ out' = get_available_space(arg)
    /\ pc' = "probed"
    /\ UNCHANGED <<stage, sentryVars, captured, enabled, agent_tools_dir,
                   hostVars, initVars, stageVars, finalVars, console, trace,
                   reported, exitVars, arg>>

SpecProbe == InitProbe /\ [][ProbeCall]_vars

\* get_available_space with subprocess.run(check=True): a non-zero exit of df
\* raises
MeasurementChecked(launched, returncode, stdout) ==
    IF ~launched \/ returncode # 0 THEN [raised |-> TRUE, value |-> 0]
    ELSE [raised |-> FALSE, value |-> get_available_space(stdout)]

\* get_available_space, the df child included: subprocess.run raises when df
\* cannot be started and, without check=True, returns whatever df exited
\* with; the total is taken from result.stdout
Measurement(launched, returncode, stdout) ==
    IF ~launched THEN [raised |-> TRUE, value |-> 0]
    ELSE [raised |-> FALSE, value |-> get_available_space(stdout)]

\* what the df child of one measurement does: it cannot be started, or it
\* exits with some status having printed some report
DfRuns ==
    {[launched |-> FALSE, returncode |-> 0, stdout |-> <<>>]}
    \cup [launched : {TRUE}, returncode : ExitCodes, stdout : Reports]

InitMeasure == pc = "call_measure" /\ arg \in DfRuns /\ out = <<>> /\ UtilIdle

\* line 132, `available_initial = get_available_space()`, and the end of the
\* process when it raises
MeasureCall ==
    /\ pc = "call_measure"
    /\ LET r == Measurement(arg.launched, arg.returncode, arg.stdout)
       IN  IF r.raised
           THEN /\ pc' = "crashed"
                /\ exit_status' = ProcessExit(TRUE, SENTRY_DSN).status
                /\ UNCHANGED <<available_initial, transcript>>
           ELSE /\ pc' = "measured"
                /\ available_initial' = r.value
                /\ UNCHANGED exitVars
    /\ UNCHANGED <<stage, sentryVars, captured, enabled, agent_tools_dir,
                   hostVars, available_root_initial, stageVars, finalVars,
                   console, trace, reported, utilVars>>

SpecMeasure == InitMeasure /\ [][MeasureCall]_vars

\* get_input is called for each stage of main on every environment of at most
\* MaxVars variables: the variable of a stage, the flag name unmangled, other
\* spellings
MaxVars == 1

InputValues == UNION EnvValues

EnvNames ==
    {VarName(Stages[s].name) : s \in 1..NStages}
    \cup {"INPUT_" \o Join(FlagChars[Stages[s].name]) : s \in 1..NStages}
    \cup {"INPUT_TOOL-CACHE", "input_tool_cache", "TOOL_CACHE"}

RECURSIVE Environments(_)
\* the environments of at most n variables
Environments(n) ==
    IF n = 0 THEN {{}}
    ELSE LET less == Environments(n - 1)
         IN  less \cup {e \cup {[var |-> v, value |-> t]} :
                          e \in less, v \in EnvNames, t \in InputValues}

\* no variable bound twice
WellFormedEnv(e) == \A a \in e, b \in e : a.var = b.var => a = b

InitInput ==
    /\ pc = "call_input"
    /\ arg \in [s : 1..NStages, env : {e \in Environments(MaxVars) : WellFormedEnv(e)}]
    /\ out = <<>>
    /\ UtilIdle

\* `if get_input(name, default):` as main calls it for stage arg.s
InputCall ==
    /\ pc = "call_input"
    /\ out' = get_input(EnvGet(arg.env, VarName(Stages[arg.s].name)),
                        Stages[arg.s].default)
    /\ pc' = "input_read"
    /\ UNCHANGED <<stage, sentryVars, captured, enabled, agent_tools_dir,
                   hostVars, initVars, stageVars, finalVars, console, trace,
                   reported, exitVars, arg>>

SpecInput == InitInput /\ [][InputCall]_vars

(***************************************************************************)
(* C7, C8: format_byte_count.                                              *)
(***************************************************************************)
\* what numfmt prints for a quantity of kb kilobytes of 1024 bytes each
BinaryText(kb) == Strip(PadLeft(IecText(kb * IecBase), PadWidth))

\* C7: format_byte_count(kb) renders kb kilobytes as the byte count kb * 1024
\* in power-of-1024 units (200,000 KB as about 195.3 MiB).
C7_FormatsKbTimes1024 ==
    (pc = "formatted" /\ arg >= 0) => out = BinaryText(arg)

\* C8: format_byte_count is defined for negative inputs: the result is not
\* empty, carries a minus sign, and differs from the result for -kb.
C8_NegativeIsFormatted ==
    (pc = "formatted" /\ arg < 0) =>
        /\ out # <<>>
        /\ \E i \in 1..Len(out) : out[i] = "-"
        /\ out # format_byte_count(0 - arg)

(***************************************************************************)
(* C9: get_available_space.                                                *)
(***************************************************************************)
\* the integer each text of AvailTexts is, where it is one
AvailValue(t) ==
    CASE t = <<"1", "0", "0">> -> 100
      [] t = <<"2", "0", "0">> -> 200
      [] t = <<"3", "0", "0">> -> 300
      [] t = <<"-", "5">> -> -5
      [] OTHER -> 0

RECURSIVE RowsTotal(_, _)
\* the sum of the fourth fields of rows from..Len(report), last row first
RowsTotal(report, from) ==
    IF Len(report) < from THEN 0
    ELSE RowsTotal(SubSeq(report, 1, Len(report) - 1), from)
         + (IF Len(report[Len(report)]) >= 4
            THEN AvailValue(report[Len(report)][4]) ELSE 0)

\* the report of the example: available = 100, 200, "x", 300
ExampleReport ==
    <<DfHeader, DfRow("/dev/sda1", <<"1", "0", "0">>, "/data"),
      DfRow("/dev/sda1", <<"2", "0", "0">>, "/data"),
      DfRow("/dev/sda1", <<"x">>, "/data"),
      DfRow("/dev/sda1", <<"3", "0", "0">>, "/data"), <<>>>>

\* C9: get_available_space returns the sum of the integer fourth fields of the
\* rows after the header row; a row whose fourth field is no integer adds
\* nothing and does not end the sum (100, 200, "x", 300 gives 600); no data
\* rows give 0.
C9_SumsAvailableColumn ==
    pc = "probed" =>
        /\ out = RowsTotal(arg, 2)
        /\ arg = ExampleReport => out = 600
        /\ Len(arg) <= 2 => out = 0

\* a malformed row is followed by a row that counts
C9_Witness == pc = "probed" /\ arg = ExampleReport /\ out = 600

(***************************************************************************)
(* What the claims about a run speak of, read off the histories.           *)
(***************************************************************************)
\* the run is inside main or past it
InMain == pc \in {"stages", "final", "done"}

RunEvents == SelectSeq(trace, LAMBDA e : e.ev = "run")
DfEvents == SelectSeq(trace, LAMBDA e : e.ev = "df")

\* the saved-space reports of the stages (the two final ones have no title)
StageReports == SelectSeq(reported, LAMBDA r : r.title # "")

\* the names of the stages whose flag was found enabled, disabled
EnabledNames == {enabled[i].name : i \in {j \in 1..Len(enabled) : enabled[j].on}}
DisabledNames == {enabled[i].name : i \in {j \in 1..Len(enabled) : ~enabled[j].on}}

\* the fixed order of the stages, each with the title of its report
FixedOrder ==
    <<[name |-> "android", title |-> "Android library"],
      [name |-> "dotnet", title |-> ".NET runtime"],
      [name |-> "haskell", title |-> "Haskell runtime"],
      [name |-> "large-packages", title |-> "Large misc. packages"],
      [name |-> "docker-images", title |-> "Docker images"],
      [name |-> "tool-cache", title |-> "Tool cache"],
      [name |-> "swap-storage", title |-> "Swap storage"]>>

\* the fixed order restricted to a set of stage names
Restricted(names) == SelectSeq(FixedOrder, LAMBDA f : f.name \in names)

\* the command lines of the block of each stage, by name, for each
\* AGENT_TOOLSDIRECTORY
BlockCommands ==
    [name \in {Stages[s].name : s \in 1..NStages}, dir \in ToolsDirs |->
        LET s    == CHOOSE i \in 1..NStages : Stages[i].name = name
            cmds == StageCommands(s, dir)
        IN  [i \in 1..Len(cmds) |-> cmds[i].cmd]]

\* the commands a run with these enabled stages attempts, block after block
RECURSIVE CommandsOf(_)
CommandsOf(flags) ==
    IF flags = <<>> THEN <<>>
    ELSE (IF Head(flags).on THEN BlockCommands[Head(flags).name, agent_tools_dir]
          ELSE <<>>)
         \o CommandsOf(Tail(flags))

(***************************************************************************)
(* C1: a command that exits non-zero does not stop anything.               *)
(***************************************************************************)
\* C1: when a command of an enabled stage exits non-zero, run_command returns
\* a failure value and does not raise, and all the commands of the stage, the
\* later stages and Finalize are still executed: the run never ends in main
\* but by Finalize (or by a child process that could not be started, which is
\* no exit status), and the commands attempted are all the commands of the
\* enabled stages, whichever of them failed.
C1_FailureDoesNotAbort ==
    /\ \A i \in 1..Len(trace) :
          (trace[i].ev = "run" /\ trace[i].rc # 0) => trace[i].ret = FALSE
    /\ pc = "crashed" => trace = <<>> \/ trace[Len(trace)].ev = "fault"
    /\ InMain => LET runs == RunEvents
                 IN  [i \in 1..Len(runs) |-> runs[i].cmd] = CommandsOf(enabled)
    /\ pc = "done" => /\ Len(enabled) = NStages
                      /\ exit_status = 0
                      /\ trace[Len(trace)].cmd = "df -a /"

\* a command failed, a later command of the run succeeded, Finalize ran
C1_Witness ==
    /\ pc = "done"
    /\ \E i \in 1..Len(RunEvents), j \in 1..Len(RunEvents) :
          i < j /\ RunEvents[i].rc # 0 /\ RunEvents[j].rc = 0

(***************************************************************************)
(* C2: the order of the stages.                                            *)
(***************************************************************************)
\* C2: whatever the seven flags, the saved-space reports of the stages are the
\* fixed sequence android, dotnet, haskell, large-packages, docker-images,
\* tool-cache, swap-storage restricted to the enabled stages, each once.
C2_StagesInFixedOrder ==
    /\ InMain =>
          [i \in 1..Len(StageReports) |-> StageReports[i].title]
            = [i \in 1..Len(Restricted(EnabledNames)) |->
                 Restricted(EnabledNames)[i].title]
    /\ pc = "done" =>
          [i \in 1..Len(enabled) |-> enabled[i].name]
            = [i \in 1..Len(FixedOrder) |-> FixedOrder[i].name]

\* a finished run with dotnet disabled between two enabled stages
C2_Witness ==
    /\ pc = "done"
    /\ EnabledNames = {"android", "haskell", "tool-cache"}
    /\ Len(StageReports) = 3

(***************************************************************************)
(* C3, C4: the saved amounts.                                              *)
(***************************************************************************)
\* the measurements of the stage blocks: those after the two of Init and,
\* once Finalize has run, before its two
StageDfs ==
    SubSeq(DfEvents, 3, Len(DfEvents) - (IF pc = "done" THEN 2 ELSE 0))

\* C3: when Finalize has run, total_saved is the all-mounts measurement of
\* Finalize minus that of Init and root_saved the root measurement of Finalize
\* minus that of Init, whatever the stages reported.
C3_TotalsFromGlobalMeasurements ==
    pc = "done" =>
        LET n == Len(DfEvents)
        IN  /\ DfEvents[1].cmd = "df -a" /\ DfEvents[2].cmd = "df -a /"
            /\ DfEvents[n - 1].cmd = "df -a" /\ DfEvents[n].cmd = "df -a /"
            /\ total_saved = DfEvents[n - 1].kb - DfEvents[1].kb
            /\ root_saved = DfEvents[n].kb - DfEvents[2].kb
            /\ reported[Len(reported) - 1].saved = root_saved
            /\ reported[Len(reported)].saved = total_saved

\* a finished run whose stage reports do not add up to total_saved
C3_Witness ==
    /\ pc = "done"
    /\ StageReports # <<>>
    /\ SumSaved(StageReports) # total_saved
    /\ total_saved # root_saved

\* C4: the saved amount a stage reports is after - before of its own two
\* measurements with its sign: not the absolute value, not clamped at zero.
C4_SavedIsSignedDifference ==
    InMain =>
        LET dfs  == StageDfs
            reps == StageReports
        IN  /\ Len(dfs) = 2 * Len(reps)
            /\ \A k \in 1..Len(reps) :
                  reps[k].saved = dfs[2 * k].kb - dfs[2 * k - 1].kb
            /\ reps # <<>> => /\ saved = after - before
                              /\ saved = reps[Len(reps)].saved

\* a stage reported a loss of space
C4_Witness == InMain /\ \E k \in 1..Len(StageReports) : StageReports[k].saved < 0

(***************************************************************************)
(* C5: a disabled stage.                                                   *)
(***************************************************************************)
\* the commands the block of each stage can run
CommandsNamed ==
    [name \in {Stages[s].name : s \in 1..NStages} |->
        UNION {{BlockCommands[name, dir][i] : i \in 1..Len(BlockCommands[name, dir])} :
               dir \in ToolsDirs}]

\* the titles of the reports of the stages
TitleOf ==
    [name \in {Stages[s].name : s \in 1..NStages} |->
        FixedOrder[CHOOSE i \in 1..Len(FixedOrder) : FixedOrder[i].name = name].title]

\* C5: a stage whose flag is disabled has no effect: no measurement is taken
\* for it (two per enabled stage beside those of Init and Finalize), none of
\* its commands is run, and it has no report, the reports of the others being
\* what they are without it.
C5_DisabledStageHasNoEffect ==
    InMain =>
        /\ Len(StageDfs) = 2 * Cardinality(EnabledNames)
        /\ Len(StageReports) = Cardinality(EnabledNames)
        /\ \A name \in DisabledNames :
              /\ \A i \in 1..Len(trace) :
                    trace[i].ev = "run" => trace[i].cmd \notin CommandsNamed[name]
              /\ \A k \in 1..Len(reported) : reported[k].title # TitleOf[name]

\* a stage was skipped between two stages that ran
C5_Witness ==
    /\ pc = "done"
    /\ DisabledNames = {"dotnet", "large-packages", "tool-cache"}
    /\ Len(StageReports) = 4

(***************************************************************************)
(* C6: warnings.                                                           *)
(***************************************************************************)
\* the warning lines the script can print
WarningLines == {WarningMarker \o AptErrorMsg(AptCommands[i]) : i \in 1..Len(AptCommands)}
                \cup {WarningMarker}

Warnings == SelectSeq(console, LAMBDA l : l \in WarningLines)
FailedRuns == SelectSeq(RunEvents, LAMBDA e : e.rc # 0)

AptSet == {AptCommands[i] : i \in 1..Len(AptCommands)}
FailedApt == SelectSeq(FailedRuns, LAMBDA e : e.cmd \in AptSet)

C10_TelemetryChangesNothing ==
    /\ pc # "boot" =>
          \/ InMain \/ pc = "main"
          \/ (pc = "crashed" /\ trace # <<>>)
    /\ exit_status = 1 => trace # <<>>
    /\ \A s \in 1..NStages, dir \in ToolsDirs, rc \in ExitCodes, dsn \in DsnValues :
          \A i \in 1..Len(StageCommands(s, dir)) :
             LET on  == run_command(StageCommands(s, dir)[i], rc, dsn)
                 off == run_command(StageCommands(s, dir)[i], rc, "")
             IN  on.ret = off.ret /\ on.lines = off.lines /\ on.raised = off.raised

(***************************************************************************)
(* C11: get_input.                                                         *)
(***************************************************************************)
\* the environment variable of each stage and whether the stage is on when
\* the variable is unset, as the documentation of the inputs lists them
ExpectedVar ==
    <<"INPUT_ANDROID", "INPUT_DOTNET", "INPUT_HASKELL", "INPUT_LARGE_PACKAGES",
      "INPUT_DOCKER_IMAGES", "INPUT_TOOL_CACHE", "INPUT_SWAP_STORAGE">>

DefaultOn == <<TRUE, TRUE, TRUE, TRUE, TRUE, FALSE, TRUE>>

\* v is "true" in some mix of upper and lower case
IsTrueText(v) ==
    /\ Len(v) = 4
    /\ v[1] \in {"t", "T"} /\ v[2] \in {"r", "R"}
    /\ v[3] \in {"u", "U"} /\ v[4] \in {"e", "E"}

\* C11: a stage is enabled exactly when its variable INPUT_<NAME>, the name
\* uppercased with hyphens as underscores, holds "true" in any case, or is
\* unset and the stage is on by default (all but tool-cache); the empty string,
\* "1", "yes" and every other value disable it, and no other variable counts.
C11_EnabledIffTrue ==
    pc = "input_read" =>
        LET vals == {b.value : b \in {x \in arg.env : x.var = ExpectedVar[arg.s]}}
        IN  out = IF vals = {} THEN DefaultOn[arg.s]
                  ELSE \A v \in vals : IsTrueText(v)

\* tool-cache, off by default, turned on by INPUT_TOOL_CACHE=TRUE
C11_Witness ==
    /\ pc = "input_read"
    /\ Stages[arg.s].name = "tool-cache"
    /\ arg.env = {[var |-> "INPUT_TOOL_CACHE", value |-> <<"T", "R", "U", "E">>]}
    /\ out = TRUE

(***************************************************************************)
(* C12: one pass, to the end.                                              *)
(***************************************************************************)
\* a child process could not be started
LaunchFailed == trace # <<>> /\ trace[Len(trace)].ev = "fault"

\* a step of main goes forward: Init to the stages, a stage to a later stage
\* or to Finalize, Finalize to the end; an earlier phase is never entered again
PhaseStep ==
    /\ pc = "main" => pc' \in {"stages", "crashed"}
    /\ pc = "stages" =>
          /\ pc' \in {"stages", "final", "crashed"}
          /\ pc' = "stages" => stage' = stage + 1
          /\ pc' = "final" => stage = NStages
    /\ pc = "final" => pc' \in {"done", "crashed"}
    /\ pc \notin {"boot", "main", "stages", "final"} => pc' = pc

\* C12: when every command terminates and can be started, main goes through
\* Init, the stages and Finalize once each, in that order, and ends, whatever
\* the flags and whichever commands fail; with the seven stages disabled it
\* takes the measurements of Init and of Finalize, computes total_saved and
\* root_saved and exits with 0.
C12_OnePassToTheEnd ==
    /\ [][PhaseStep]_vars
    /\ (pc = "main") ~> (pc = "done" \/ LaunchFailed)
    /\ [](pc = "done" =>
            /\ Len(enabled) = NStages
            /\ EnabledNames = {} =>
                  /\ [i \in 1..Len(trace) |-> trace[i].cmd]
                       = <<"df -a", "df -a /", "df -a", "df -a /">>
                  /\ total_saved = trace[3].kb - trace[1].kb
                  /\ root_saved = trace[4].kb - trace[2].kb
                  /\ exit_status = 0)

\* a finished run with the seven stages disabled
C12_Witness ==
    /\ pc = "done"
    /\ Len(enabled) = NStages
    /\ EnabledNames = {}
    /\ Len(trace) = 4

(***************************************************************************)
(* C13: the exit status.                                                   *)
(***************************************************************************)
\* C13: the process exits with 0 exactly when the run reaches its end, however
\* many commands exited non-zero; it exits with 1 only when an exception left
\* main (a child process could not be started), captured once more when
\* SENTRY_DSN is set and raised again, or when the module-level
\* initialisation raised.
C13_ExitStatus ==
    /\ exit_status = 0 <=> pc = "done"
    /\ exit_status = -1 <=> pc \notin {"done", "crashed"}
    /\ pc = "crashed" =>
          /\ exit_status = 1
          /\ \/ /\ LaunchFailed
                /\ captured = IF SENTRY_DSN # ""
                              THEN Len(FailedRuns) + 1 ELSE 0
             \/ /\ trace = <<>>
                /\ SENTRY_DSN = BadDsn
                /\ captured = 0

\* a run with telemetry on that ends on a command that cannot be started,
\* after a command that exited non-zero
C13_Witness ==
    /\ pc = "crashed"
    /\ exit_status = 1
    /\ LaunchFailed
    /\ Len(FailedRuns) = 1
    /\ captured = 2

(***************************************************************************)
(* C14: the order of the console transcript.                               *)
(***************************************************************************)
\* the output of the three df commands of one report
ReportOutputs ==
    <<ChildOutput("df -h /"), ChildOutput("df -a /"), ChildOutput("df -a")>>

\* the line of the banner that carries the title and the amount
BannerLine(r) == print_saved_space(r.saved, r.title)[3]

\* the captions, the df output and the banner lines, in the order the script
\* produces them
Landmarks ==
    LET n == Len(reported)
    IN  <<"BEFORE CLEAN-UP:">> \o ReportOutputs
          \o [i \in 1..(n - 2) |-> BannerLine(reported[i])]
          \o <<"AFTER CLEAN-UP:">> \o ReportOutputs
          \o <<"/dev/root:", BannerLine(reported[n - 1]),
               "overall:", BannerLine(reported[n])>>

\* C14: on the console of a finished run the BEFORE report (df -h /, df -a /,
\* df -a) comes first, then one banner per enabled stage, then the AFTER
\* report, the root banner and the overall banner: no stage banner before
\* the BEFORE report or after the AFTER report.
C14_TranscriptOrder ==
    pc = "done" =>
        LET marks == Landmarks
            set   == {marks[i] : i \in 1..Len(marks)}
        IN  /\ Len(reported) = Cardinality(EnabledNames) + 2
            /\ \A isatty \in BOOLEAN :
                  SelectSeq(transcript[isatty], LAMBDA l : l \in set) = marks

(***************************************************************************)
(* C15: where the measurements of a stage stand.                           *)
(***************************************************************************)
\* the df and the commands of the blocks of these stages, block after block:
\* each enabled block is its measurement, its commands, its measurement
RECURSIVE BlocksOf(_)
BlocksOf(flags) ==
    IF flags = <<>> THEN <<>>
    ELSE (IF Head(flags).on
          THEN <<"df -a">>
                 \o BlockCommands[Head(flags).name, agent_tools_dir]
                 \o <<"df -a">>
          ELSE <<>>)
         \o BlocksOf(Tail(flags))

\* C15: the before measurement of an enabled stage is taken before the first
\* command of the stage and after every command of the earlier stages, its
\* after measurement after its last command has been attempted, and the
\* stage's report is printed however many of its commands failed.
C15_MeasurementsBracketCommands ==
    pc \in {"final", "done"} =>
        LET n    == Len(trace) - (IF pc = "done" THEN 2 ELSE 0)
            reps == StageReports
        IN  /\ [i \in 1..(n - 2) |-> trace[i + 2].cmd] = BlocksOf(enabled)
            /\ Len(reps) = Cardinality(EnabledNames)
            /\ \A k \in 1..Len(reps) : reps[k].title = TitleOf[enabled[
                  CHOOSE j \in 1..Len(enabled) :
                     /\ enabled[j].on
                     /\ Cardinality({h \in 1..j : enabled[h].on}) = k].name]

\* a finished run in which a command of other than the last enabled stage
\* exited non-zero
C15_Witness ==
    /\ pc = "done"
    /\ \E i \in 1..Len(trace) :
          /\ trace[i].ev = "run" /\ trace[i].rc # 0
          /\ \E j \in (i + 1)..Len(trace) : trace[j].ev = "run"
    /\ Len(StageReports) >= 2

(***************************************************************************)
(* C16: the tool-cache stage.                                              *)
(***************************************************************************)
\* the removals of a tool cache among the commands run
ToolCacheRuns ==
    SelectSeq(RunEvents,
              LAMBDA e : e.cmd \in {"sudo rm -rf " \o d : d \in ToolsDirs})

\* C16: the tool-cache stage, enabled, runs no command when the tool-cache
\* path is unset or empty and still takes its two measurements and prints its
\* report; with a non-empty path it attempts exactly one removal, of that path.
C16_ToolCache ==
    (InMain /\ "tool-cache" \in EnabledNames) =>
        LET runs == ToolCacheRuns
            reps == StageReports
            dfs  == StageDfs
            k    == CHOOSE i \in 1..Len(reps) : reps[i].title = TitleOf["tool-cache"]
        IN  /\ \E i \in 1..Len(reps) : reps[i].title = TitleOf["tool-cache"]
            /\ Len(dfs) >= 2 * k
            /\ reps[k].saved = dfs[2 * k].kb - dfs[2 * k - 1].kb
            /\ IF agent_tools_dir = "" THEN runs = <<>>
               ELSE /\ Len(runs) = 1
                    /\ runs[1].cmd = "sudo rm -rf " \o agent_tools_dir

\* a finished run with the tool-cache stage enabled and no tool-cache path
C16_Witness ==
    /\ pc = "done"
    /\ "tool-cache" \in EnabledNames
    /\ agent_tools_dir = ""
    /\ ToolCacheRuns = <<>>
    /\ \E i \in 1..Len(StageReports) : StageReports[i].title = TitleOf["tool-cache"]

(***************************************************************************)
(* C17: nothing is done twice.                                             *)
(***************************************************************************)
\* the number of commands of the blocks of these stages
RECURSIVE BlockSizes(_)
BlockSizes(flags) ==
    IF flags = <<>> THEN 0
    ELSE (IF Head(flags).on
          THEN Len(BlockCommands[Head(flags).name, agent_tools_dir]) ELSE 0)
         + BlockSizes(Tail(flags))

\* C17: nothing is retried: no command is run twice, a command that failed
\* included, so that each command of the finished blocks was attempted
\* exactly once; no stage is entered twice, and Init and Finalize measure
\* and report once.
C17_NoRetry ==
    LET runs == RunEvents
    IN  /\ Cardinality({runs[i].cmd : i \in 1..Len(runs)}) = Len(runs)
        /\ Cardinality({enabled[i].name : i \in 1..Len(enabled)}) = Len(enabled)
        /\ InMain => /\ Len(runs) = BlockSizes(enabled)
                     /\ Len(DfEvents) = 2 + 2 * Cardinality(EnabledNames)
                                          + (IF pc = "done" THEN 2 ELSE 0)
                     /\ Len(reported) = Cardinality(EnabledNames)
                                          + (IF pc = "done" THEN 2 ELSE 0)

\* a finished run in which a command exited non-zero
C17_Witness ==
    /\ pc = "done"
    /\ \E i \in 1..Len(RunEvents) : RunEvents[i].rc # 0
    /\ Cardinality({RunEvents[i].cmd : i \in 1..Len(RunEvents)}) = Len(RunEvents)
    /\ Len(RunEvents) >= 2

(***************************************************************************)
(* C18: the sign of a measurement.                                         *)
(***************************************************************************)
\* C18: get_available_space never returns a negative number of KB, whatever
\* the rows of the report, a row with a negative or malformed fourth field
\* included.
C18_NeverNegative == pc = "probed" => out >= 0

(***************************************************************************)
(* C19: a df that fails.                                                   *)
(***************************************************************************)
\* C19: a df that exits non-zero, or prints no row that can be read, is no
\* fault: get_available_space does not raise and returns the total of the
\* rows it could read, 0 when there is none, and main goes on with that
\* value; only a df that cannot be started ends the run.
C19_DfFailureIsNoFault ==
    /\ pc = "measured" =>
          /\ arg.launched
          /\ available_initial = RowsTotal(arg.stdout, 2)
          /\ Len(arg.stdout) <= 2 => available_initial = 0
          /\ exit_status = -1
    /\ pc = "crashed" => ~arg.launched /\ exit_status = 1

\* df exited non-zero having printed a report, and its total is used
C19_Witness ==
    /\ pc = "measured"
    /\ arg.returncode # 0
    /\ arg.stdout # <<>>
    /\ available_initial > 0

=============================================================================
